---------------------------- MODULE Spec2Model ----------------------------
(***************************************************************************)
(* Model of filesystem-dupe-scraper (src/src/main.rs).                     *)
(*                                                                         *)
(* real_main dispatches on the command; "walk" creates the table, walks    *)
(* the tree spawning one tokio task per entry that passes the path filter, *)
(* joins every handle and then queries the record count.  Each task        *)
(* (digest_and_insert_path) returns at once for a directory, otherwise     *)
(* digests the file and inserts a record through its own connection,       *)
(* retrying by recursion.                                                  *)
(***************************************************************************)
EXTENDS Integers, Sequences, FiniteSets, TLC

(***************************************************************************)
(* Bounds.  The three program constants below are scaled down: the source  *)
(* uses chunk_size = 0x4000 (line 164), 200 retries (line 146) and 400     *)
(* worker threads (line 32).                                               *)
(***************************************************************************)
MaxEntries == 3
ChunkSize == 2
RetryBudget == 1
WorkerThreads == 2

\* the contents and chunk sizes the digest loop is run on by itself
MaxLen == 4
MaxChunk == 3

\* What "Records count: {}" shows: the count, or usize::MAX when the query
\* failed (line 59), kept apart from the counts
CountValue(n) == [count |-> n, usize_max |-> FALSE]
UsizeMaxValue == [count |-> 0, usize_max |-> TRUE]

(***************************************************************************)
(* Paths are sequences of characters so that substring containment and     *)
(* file_name() are computed, not assumed.                                  *)
(***************************************************************************)
InvalidByte == "\\xFF"
ReplacementChar == "U+FFFD"

to_string_lossy(p) ==
    [k \in 1..Len(p) |-> IF p[k] = InvalidByte THEN ReplacementChar ELSE p[k]]

\* str::contains(pat): pat occurs at some offset of s
contains(s, pat) ==
    \E k \in 0..(Len(s) - Len(pat)) : SubSeq(s, k + 1, k + Len(pat)) = pat

DotGit == <<".", "g", "i", "t">>
SlashTargetSlash == <<"/", "t", "a", "r", "g", "e", "t", "/">>
DotIdeaSlash == <<".", "i", "d", "e", "a", "/">>

\* the filter with its third pattern forgotten
DenylistedWithoutIdea(path_string) ==
    \/ contains(path_string, DotGit)
    \/ contains(path_string, SlashTargetSlash)

\* the condition of lines 114-116
Denylisted(path_string) ==
    \/ contains(path_string, DotGit)
    \/ contains(path_string, SlashTargetSlash)
    \/ contains(path_string, DotIdeaSlash)

\* Path::file_name(): the last component of the path
RECURSIVE LastSlash(_, _)
LastSlash(p, k) ==
    IF k = 0 THEN 0
    ELSE IF p[k] = "/" THEN k
    ELSE LastSlash(p, k - 1)

file_name(p) == SubSeq(p, LastSlash(p, Len(p)) + 1, Len(p))

(***************************************************************************)
(* The file system under the root.  Every entry the walker can yield is    *)
(* listed in walk order with the index of its parent (0: a root).          *)
(* result = "err" is an entry for which the iterator yields Err: "r/p" is  *)
(* a directory that cannot be read, "x" a root that does not exist.  "f"   *)
(* is a root that is a regular file: WalkDir yields it as its one entry.   *)
(***************************************************************************)
FsEntries == <<
    [path |-> <<"r">>, result |-> "ok", ftype |-> "dir", target |-> "dir",
     content |-> <<>>, parent |-> 0],
    [path |-> <<"r", "/", "a">>, result |-> "ok", ftype |-> "file",
     target |-> "file", content |-> <<1, 2, 3>>, parent |-> 1],
    [path |-> <<"r", "/", "b">>, result |-> "ok", ftype |-> "file",
     target |-> "file", content |-> <<1, 2>>, parent |-> 1],
    [path |-> <<"r", "/", ".", "g", "i", "t">>, result |-> "ok",
     ftype |-> "dir", target |-> "dir", content |-> <<>>, parent |-> 1],
    [path |-> <<"r", "/", ".", "g", "i", "t", "/", "c">>, result |-> "ok",
     ftype |-> "file", target |-> "file", content |-> <<7>>, parent |-> 4],
    [path |-> <<"r", "/", ".", "g", "i", "t", "i", "g", "n">>,
     result |-> "ok", ftype |-> "file", target |-> "file",
     content |-> <<8>>, parent |-> 1],
    [path |-> <<"r", "/", "t", "a", "r", "g", "e", "t">>, result |-> "ok",
     ftype |-> "dir", target |-> "dir", content |-> <<>>, parent |-> 1],
    [path |-> <<"r", "/", "t", "a", "r", "g", "e", "t", "/", "o">>,
     result |-> "ok", ftype |-> "file", target |-> "file",
     content |-> <<9>>, parent |-> 7],
    [path |-> <<"r", "/", ".", "i", "d", "e", "a">>, result |-> "ok",
     ftype |-> "dir", target |-> "dir", content |-> <<>>, parent |-> 1],
    [path |-> <<"r", "/", ".", "i", "d", "e", "a", "/", "w">>,
     result |-> "ok", ftype |-> "file", target |-> "file",
     content |-> <<6>>, parent |-> 9],
    [path |-> <<"r", "/", "l">>, result |-> "ok", ftype |-> "symlink",
     target |-> "file", content |-> <<3>>, parent |-> 1],
    [path |-> <<"r", "/", "s">>, result |-> "ok", ftype |-> "symlink",
     target |-> "dir", content |-> <<>>, parent |-> 1],
    [path |-> <<"r", "/", "p">>, result |-> "err", ftype |-> "dir",
     target |-> "dir", content |-> <<>>, parent |-> 1],
    [path |-> <<"x">>, result |-> "err", ftype |-> "dir",
     target |-> "dir", content |-> <<>>, parent |-> 0],
    [path |-> <<"r", "/", "z">>, result |-> "ok", ftype |-> "file",
     target |-> "file", content |-> <<>>, parent |-> 1],
    [path |-> <<"f">>, result |-> "ok", ftype |-> "file",
     target |-> "file", content |-> <<5>>, parent |-> 0]
>>

NumFs == Len(FsEntries)

\* WalkDir yields a root first, a child only after its parent, each entry once
IsWalk(S) ==
    /\ Cardinality({e \in S : FsEntries[e].parent = 0}) = 1
    /\ \A e \in S : FsEntries[e].parent # 0 => FsEntries[e].parent \in S
    /\ Cardinality(S) <= MaxEntries

RECURSIVE SetToSortedSeq(_)
SetToSortedSeq(S) ==
    IF S = {} THEN <<>>
    ELSE LET m == CHOOSE x \in S : \A y \in S : x <= y
         IN <<m>> \o SetToSortedSeq(S \ {m})

Walks == {SetToSortedSeq(S) : S \in {T \in SUBSET (1..NumFs) : IsWalk(T)}}

(***************************************************************************)
(* Digest Engine: calculate_digest (lines 149-186).  The MD5 accumulator   *)
(* is the sequence of bytes fed to it; finalize() and the {:x} format are  *)
(* injective on it.  failAt is the number of the read that returns an      *)
(* error (0: no read fails).                                               *)
(***************************************************************************)
None == <<>>
Some(x) == <<x>>

finalize(md5) == [md5_of |-> md5]
format_x(md5_result) == [hex |-> md5_result.md5_of]

\* a take() that stops one byte early
read_take_short(content, pos, chunk_size) ==
    SubSeq(content, pos + 1,
           IF pos + chunk_size - 1 < Len(content) THEN pos + chunk_size - 1
           ELSE Len(content))

\* f.by_ref().take(chunk_size).read_to_end(&mut chunk) at offset pos:
\* the next chunk_size bytes, or what is left of the file
read_take(content, pos, chunk_size) ==
    SubSeq(content, pos + 1,
           IF pos + chunk_size < Len(content) THEN pos + chunk_size
           ELSE Len(content))

read_chunk(content, pos) == read_take(content, pos, ChunkSize)

\* the loop of lines 165-184
RECURSIVE digest_loop(_, _, _, _, _)
digest_loop(content, pos, md5, reads, failAt) ==
    IF reads + 1 = failAt
    THEN finalize(md5)
    ELSE LET chunk == read_chunk(content, pos)
             n == Len(chunk)
         IN IF n = 0 THEN finalize(md5)
            ELSE IF n < ChunkSize THEN finalize(md5 \o chunk)
            ELSE digest_loop(content, pos + n, md5 \o chunk, reads + 1, failAt)

\* the digest with the failure of File::open ignored
calculate_digest_unopened(content, openOk, failAt) ==
    Some(format_x(digest_loop(IF openOk THEN content ELSE <<>>, 0, <<>>, 0,
                              failAt)))

calculate_digest(content, openOk, failAt) ==
    IF ~openOk THEN None
    ELSE Some(format_x(digest_loop(content, 0, <<>>, 0, failAt)))

\* the reads the loop issues on a file that is read without error
NumReads(content) == (Len(content) \div ChunkSize) + 1

\* the digest of the complete content, in one update
FullDigest(content) == format_x(finalize(content))

(***************************************************************************)
(* State.                                                                  *)
(***************************************************************************)
VARIABLES
    command,    \* args.command
    pathArg,    \* args.path is Some
    tree,       \* what WalkDir yields for the root: indices into FsEntries
    tables,     \* the table file_record exists
    store,      \* the rows of file_record, in insertion order
    prior,      \* the rows the store held when the process started
    mainPc,     \* position of real_main
    idx,        \* entries the for loop of walk_filesystem_hashing has taken
    handles,    \* the JoinHandles pushed, as positions of tree
    report,     \* the "Records count" logged, if any
    pc,         \* per spawned task: position of digest_and_insert_path
    rec,        \* per task: the FileRecord it built
    remaining,  \* per task: remaining_retries of the running call
    attempts,   \* per task: the payloads handed to conn.execute, in order
    io,         \* per task: what opening and reading its file did
    dg          \* the digest loop run by itself: see DigestSpec

vars == <<command, pathArg, tree, tables, store, prior, mainPc, idx, handles,
          report, pc, rec, remaining, attempts, io, dg>>

mainVars == <<mainPc, idx, handles, report>>
taskVars == <<pc, rec, remaining, attempts, io>>
envVars == <<command, pathArg, tree, prior, dg>>

\* no digest loop is run by itself
DigestIdle == [on |-> FALSE, content |-> <<>>, chunk_size |-> 0, pos |-> 0,
               md5 |-> <<>>, reads |-> <<>>, result |-> None]

Tasks == 1..Len(tree)
Entry(t) == FsEntries[tree[t]]

NoRecord == [filename |-> <<>>, filepath |-> <<>>, hash |-> [hex |-> <<>>]]

\* the test of line 136 inverted
is_not_dir(e) == e.target # "dir"

\* Path::is_dir() follows symbolic links
is_dir(e) == e.target = "dir"

\* lines 141-145
FileRecord(path, digest) ==
    [filename |-> to_string_lossy(file_name(path)),
     filepath |-> to_string_lossy(path),
     hash |-> digest[1]]

\* the rows an earlier run of "walk" on the same, unchanged tree left when
\* every file was opened and read without error and every insert succeeded
RECURSIVE EarlierScanFrom(_, _)
EarlierScanFrom(walk, k) ==
    IF k > Len(walk) THEN <<>>
    ELSE LET e == FsEntries[walk[k]]
         IN (IF e.result = "ok" /\ ~Denylisted(to_string_lossy(e.path))
                  /\ ~is_dir(e)
             THEN <<FileRecord(e.path, calculate_digest(e.content, TRUE, 0))>>
             ELSE <<>>) \o EarlierScanFrom(walk, k + 1)

EarlierScan(walk) == EarlierScanFrom(walk, 1)

\* CREATE TABLE without IF NOT EXISTS: an error when the table exists
create_tables_plain(tbl, rows) ==
    [ok |-> ~tbl, tables |-> TRUE, store |-> rows]

\* create_tables (lines 70-81): CREATE TABLE IF NOT EXISTS, then unwrap
create_tables(tbl, rows) ==
    [ok |-> TRUE, tables |-> TRUE, store |-> IF tbl THEN rows ELSE <<>>]

\* a row a previous run of "walk" left behind
PriorRow == [filename |-> file_name(FsEntries[2].path),
             filepath |-> FsEntries[2].path,
             hash |-> FullDigest(FsEntries[2].content)]

Init ==
    /\ command \in {"walk", "setup", "other"}
    /\ pathArg \in BOOLEAN
    /\ tree \in (IF pathArg THEN Walks ELSE {<<>>})
    /\ \E t \in {<<FALSE, <<>> >>, <<TRUE, <<PriorRow>> >>,
                 <<TRUE, EarlierScan(tree)>>} :
          /\ tables = t[1]
          /\ store = t[2]
          /\ prior = Len(t[2])
    /\ mainPc = "start"
    /\ idx = 0
    /\ handles = <<>>
    /\ report = None
    /\ pc = [t \in Tasks |-> "unspawned"]
    /\ rec = [t \in Tasks |-> NoRecord]
    /\ remaining = [t \in Tasks |-> 0]
    /\ attempts = [t \in Tasks |-> <<>>]
    /\ io = [t \in Tasks |-> "none"]
    /\ dg = DigestIdle

(***************************************************************************)
(* real_main (lines 43-68) and walk_filesystem_hashing (lines 105-131).    *)
(* real_main runs on the thread that called block_on; the walk is          *)
(* synchronous, so the tasks it spawns start on the worker threads while   *)
(* the loop is still running.                                              *)
(***************************************************************************)

\* lines 50-53: create_tables, then args.path.expect(..)
WalkCommand ==
    /\ mainPc = "start"
    /\ command = "walk"
    /\ LET created == create_tables(tables, store)
       IN IF created.ok
          THEN /\ tables' = created.tables
               /\ store' = created.store
               /\ mainPc' = IF pathArg THEN "walk" ELSE "panic_expect"
          ELSE /\ mainPc' = "panic_create"
               /\ UNCHANGED <<tables, store>>
    /\ UNCHANGED <<idx, handles, report>>
    /\ UNCHANGED <<taskVars, envVars>>

\* lines 65-67
SetupCommand ==
    /\ mainPc = "start"
    /\ command = "setup"
    /\ LET created == create_tables(tables, store)
       IN IF created.ok
          THEN /\ tables' = created.tables
               /\ store' = created.store
               /\ mainPc' = "exit"
          ELSE /\ mainPc' = "panic_create"
               /\ UNCHANGED <<tables, store>>
    /\ UNCHANGED <<idx, handles, report>>
    /\ UNCHANGED <<taskVars, envVars>>

\* a dispatch that creates the table for every command but walk
OtherCommandCreates ==
    /\ mainPc = "start"
    /\ command \notin {"walk", "setup"}
    /\ tables' = TRUE
    /\ mainPc' = "exit"
    /\ UNCHANGED <<store, idx, handles, report>>
    /\ UNCHANGED <<taskVars, envVars>>

\* any other command falls through both ifs
OtherCommand ==
    /\ mainPc = "start"
    /\ command \notin {"walk", "setup"}
    /\ mainPc' = "exit"
    /\ UNCHANGED <<tables, store, idx, handles, report>>
    /\ UNCHANGED <<taskVars, envVars>>

InLoop == mainPc = "walk" /\ idx < Len(tree)

\* an Err that ends the loop instead of continuing it
WalkBreakOnErr ==
    /\ InLoop
    /\ FsEntries[tree[idx + 1]].result = "err"
    /\ idx' = Len(tree)
    /\ UNCHANGED <<mainPc, handles, report, tables, store>>
    /\ UNCHANGED <<taskVars, envVars>>

\* lines 123-126: Err(e) => continue
WalkSkipErr ==
    /\ InLoop
    /\ FsEntries[tree[idx + 1]].result = "err"
    /\ idx' = idx + 1
    /\ UNCHANGED <<mainPc, handles, report, tables, store>>
    /\ UNCHANGED <<taskVars, envVars>>

\* lines 112-120: the path filter
WalkSkipDenylisted ==
    /\ InLoop
    /\ FsEntries[tree[idx + 1]].result = "ok"
    /\ Denylisted(to_string_lossy(FsEntries[tree[idx + 1]].path))
    /\ idx' = idx + 1
    /\ UNCHANGED <<mainPc, handles, report, tables, store>>
    /\ UNCHANGED <<taskVars, envVars>>

\* line 128: handles.push(tokio::spawn(digest_and_insert_path(file)))
WalkSpawn ==
    /\ InLoop
    /\ FsEntries[tree[idx + 1]].result = "ok"
    /\ ~Denylisted(to_string_lossy(FsEntries[tree[idx + 1]].path))
    /\ idx' = idx + 1
    /\ handles' = Append(handles, idx + 1)
    /\ pc' = [pc EXCEPT ![idx + 1] = "spawned"]
    /\ UNCHANGED <<mainPc, report, tables, store>>
    /\ UNCHANGED <<rec, remaining, attempts, io, envVars>>

\* a handle that resolves only when its task returned
SettledOnReturn(t) == pc[t] = "returned"

\* a JoinHandle resolves when its task returned or panicked
Settled(t) == pc[t] \in {"returned", "panic_unwrap", "panic_insert"}

\* a join that returns with the first handle that is ready
JoinReadyAny ==
    handles = <<>> \/ \E k \in 1..Len(handles) : Settled(handles[k])

\* join_all(handles) is ready when every handle is
JoinReady == \A k \in 1..Len(handles) : Settled(handles[k])

\* line 130: the loop is over and join_all(handles).await returns
JoinAll ==
    /\ mainPc = "walk"
    /\ idx = Len(tree)
    /\ JoinReady
    /\ mainPc' = "count"
    /\ UNCHANGED <<idx, handles, report, tables, store>>
    /\ UNCHANGED <<taskVars, envVars>>

\* lines 54-63, Ok(count)
CountOk ==
    /\ mainPc = "count"
    /\ tables
    /\ report' = Some(CountValue(Len(store)))
    /\ mainPc' = "exit"
    /\ UNCHANGED <<idx, handles, tables, store>>
    /\ UNCHANGED <<taskVars, envVars>>

\* lines 54-63, Err(sql_error)
CountErr ==
    /\ mainPc = "count"
    /\ report' = Some(UsizeMaxValue)
    /\ mainPc' = "exit"
    /\ UNCHANGED <<idx, handles, tables, store>>
    /\ UNCHANGED <<taskVars, envVars>>

(***************************************************************************)
(* digest_and_insert_path (lines 133-147) and insert_file_record (lines    *)
(* 83-103).  Neither holds an await that suspends: a task that a worker    *)
(* thread has picked up runs to its end on that thread, and the only step  *)
(* that lasts is conn.execute.  A task in "execute" is inside that call,   *)
(* on a connection of its own (line 84), which is taken to open: real_main *)
(* opened the same file at line 48.                                        *)
(***************************************************************************)

\* worker_threads(400): a task starts when a worker thread is idle
WorkerFree == Cardinality({t \in Tasks : pc[t] = "execute"}) < WorkerThreads

\* lines 136-139
TaskDir(t) ==
    /\ pc[t] = "spawned"
    /\ WorkerFree
    /\ is_dir(Entry(t))
    /\ pc' = [pc EXCEPT ![t] = "returned"]
    /\ UNCHANGED <<rec, remaining, attempts, io>>
    /\ UNCHANGED <<mainVars, tables, store, envVars>>

\* lines 140-146 with the outcome of File::open and of the reads given
TaskBody(t, openOk, failAt) ==
    /\ pc[t] = "spawned"
    /\ WorkerFree
    /\ ~is_dir(Entry(t))
    /\ LET digest == calculate_digest(Entry(t).content, openOk, failAt)
       IN IF digest = None
          THEN \* digest.await.unwrap() panics
               /\ pc' = [pc EXCEPT ![t] = "panic_unwrap"]
               /\ UNCHANGED <<rec, remaining, attempts>>
          ELSE LET record == FileRecord(Entry(t).path, digest)
               IN /\ rec' = [rec EXCEPT ![t] = record]
                  /\ remaining' = [remaining EXCEPT ![t] = RetryBudget]
                  /\ attempts' = [attempts EXCEPT ![t] = <<record>>]
                  /\ pc' = [pc EXCEPT ![t] = "execute"]
    /\ io' = [io EXCEPT ![t] = IF ~openOk THEN "open_failed"
                               ELSE IF failAt # 0 THEN "read_failed"
                               ELSE "read_ok"]
    /\ UNCHANGED <<mainVars, tables, store, envVars>>

\* File::open fails (lines 153-160)
TaskOpenFail(t) == TaskBody(t, FALSE, 0)

\* every read succeeds
TaskDigest(t) == TaskBody(t, TRUE, 0)

\* read number failAt returns an error (line 182)
TaskReadFail(t) ==
    \E failAt \in 1..NumReads(Entry(t).content) : TaskBody(t, TRUE, failAt)

\* the retry test off by one
RetryAllowedOnceMore(remaining_retries) == remaining_retries >= 0

\* line 96
RetryAllowed(remaining_retries) == remaining_retries > 0

\* an insert that replaces the row of the same path (INSERT OR REPLACE)
ExecOkReplace(t) ==
    /\ pc[t] = "execute"
    /\ tables
    /\ store' = Append(SelectSeq(store,
                                 LAMBDA r : r.filepath # rec[t].filepath),
                       rec[t])
    /\ pc' = [pc EXCEPT ![t] = "returned"]
    /\ UNCHANGED <<rec, remaining, attempts, io>>
    /\ UNCHANGED <<mainVars, tables, envVars>>

\* lines 89-91: conn.execute returned Ok, the row is in the table
ExecOk(t) ==
    /\ pc[t] = "execute"
    /\ tables
    /\ store' = Append(store, rec[t])
    /\ pc' = [pc EXCEPT ![t] = "returned"]
    /\ UNCHANGED <<rec, remaining, attempts, io>>
    /\ UNCHANGED <<mainVars, tables, envVars>>

\* lines 92-97: conn.execute returned Err, the call recurses
ExecErrRetry(t) ==
    /\ pc[t] = "execute"
    /\ RetryAllowed(remaining[t])
    /\ remaining' = [remaining EXCEPT ![t] = remaining[t] - 1]
    /\ attempts' = [attempts EXCEPT ![t] = Append(attempts[t], rec[t])]
    /\ UNCHANGED <<pc, rec, io>>
    /\ UNCHANGED <<mainVars, tables, store, envVars>>

\* lines 98-100: conn.execute returned Err with no retry left
ExecErrPanic(t) ==
    /\ pc[t] = "execute"
    /\ ~RetryAllowed(remaining[t])
    /\ pc' = [pc EXCEPT ![t] = "panic_insert"]
    /\ UNCHANGED <<rec, remaining, attempts, io>>
    /\ UNCHANGED <<mainVars, tables, store, envVars>>

Next ==
    \/ WalkCommand
    \/ SetupCommand
    \/ OtherCommand
    \/ WalkSkipErr
    \/ WalkSkipDenylisted
    \/ WalkSpawn
    \/ JoinAll
    \/ CountOk
    \/ CountErr
    \/ \E t \in Tasks : TaskDir(t)
    \/ \E t \in Tasks : TaskOpenFail(t)
    \/ \E t \in Tasks : TaskDigest(t)
    \/ \E t \in Tasks : TaskReadFail(t)
    \/ \E t \in Tasks : ExecOk(t)
    \/ \E t \in Tasks : ExecErrRetry(t)
    \/ \E t \in Tasks : ExecErrPanic(t)

Spec == Init /\ [][Next]_vars

\* the steps of real_main on the thread that runs it (block_on, line 37)
MainStep ==
    \/ WalkCommand
    \/ SetupCommand
    \/ OtherCommand
    \/ WalkSkipErr
    \/ WalkSkipDenylisted
    \/ WalkSpawn
    \/ JoinAll
    \/ CountOk
    \/ CountErr

\* the steps of the task spawned for entry t (line 128)
TaskStep(t) ==
    /\ t \in Tasks
    /\ \/ TaskDir(t)
       \/ TaskOpenFail(t)
       \/ TaskDigest(t)
       \/ TaskReadFail(t)
       \/ ExecOk(t)
       \/ ExecErrRetry(t)
       \/ ExecErrPanic(t)

\* the runtime of lines 31-35 keeps running the main future and every
\* spawned task: each takes its next step, whatever its outcome
FairSpec ==
    /\ Spec
    /\ WF_vars(MainStep)
    /\ \A t \in 1..MaxEntries : WF_vars(TaskStep(t))

(***************************************************************************)
(* The loop of calculate_digest (lines 163-185) one iteration at a time,   *)
(* on every content of at most MaxLen bytes and every chunk size up to     *)
(* MaxChunk, with no read error.  dg.md5 is what was fed to the            *)
(* accumulator, dg.reads the lengths n the reads returned.                 *)
(***************************************************************************)
Bytes == {0, 1}

RECURSIVE SeqsUpTo(_)
SeqsUpTo(n) ==
    IF n = 0 THEN {<<>>}
    ELSE LET shorter == SeqsUpTo(n - 1)
         IN shorter \cup {Append(q, b) : q \in shorter, b \in Bytes}

DigestInit ==
    /\ command = "other"
    /\ pathArg = FALSE
    /\ tree = <<>>
    /\ tables = FALSE
    /\ store = <<>>
    /\ prior = 0
    /\ mainPc = "exit"
    /\ idx = 0
    /\ handles = <<>>
    /\ report = None
    /\ pc = <<>>
    /\ rec = <<>>
    /\ remaining = <<>>
    /\ attempts = <<>>
    /\ io = <<>>
    /\ \E content \in SeqsUpTo(MaxLen), chunk_size \in 1..MaxChunk :
          dg = [on |-> TRUE, content |-> content, chunk_size |-> chunk_size,
                pos |-> 0, md5 |-> <<>>, reads |-> <<>>, result |-> None]

DigestFrame ==
    UNCHANGED <<command, pathArg, tree, tables, store, prior, mainPc, idx,
                handles, report, pc, rec, remaining, attempts, io>>

DigestRunning == dg.on /\ dg.result = None

\* lines 173-176: the read returned 0 bytes
DigestEof ==
    /\ DigestRunning
    /\ LET chunk == read_take(dg.content, dg.pos, dg.chunk_size)
       IN /\ Len(chunk) = 0
          /\ dg' = [dg EXCEPT !.reads = Append(@, 0),
                              !.result = Some(format_x(finalize(dg.md5)))]
    /\ DigestFrame

\* lines 177-180: the read returned fewer bytes than the chunk size
DigestShort ==
    /\ DigestRunning
    /\ LET chunk == read_take(dg.content, dg.pos, dg.chunk_size)
           n == Len(chunk)
       IN /\ n # 0
          /\ n < dg.chunk_size
          /\ dg' = [dg EXCEPT !.reads = Append(@, n),
                              !.pos = @ + n,
                              !.md5 = @ \o chunk,
                              !.result =
                                  Some(format_x(finalize(dg.md5 \o chunk)))]
    /\ DigestFrame

\* lines 177-181: the read filled the chunk, the loop goes on
DigestFull ==
    /\ DigestRunning
    /\ LET chunk == read_take(dg.content, dg.pos, dg.chunk_size)
           n == Len(chunk)
       IN /\ n # 0
          /\ ~(n < dg.chunk_size)
          /\ dg' = [dg EXCEPT !.reads = Append(@, n),
                              !.pos = @ + n,
                              !.md5 = @ \o chunk]
    /\ DigestFrame

DigestNext ==
    \/ DigestEof
    \/ DigestShort
    \/ DigestFull

DigestSpec == DigestInit /\ [][DigestNext]_vars

\* the duplicate sets the program returns: real_main reads the store with
\* the count query alone (lines 54-59) and has no command that groups rows
\* by hash, so no run returns any set
DuplicateSets == <<>>

(***************************************************************************)
(* Vocabulary of the properties.                                           *)
(***************************************************************************)
NewRows == {k \in 1..Len(store) : k > prior}

\* the path string of each entry of the file system, as the rows hold it
PathString == [e \in 1..NumFs |-> to_string_lossy(FsEntries[e].path)]

\* the rows this run inserted for the entry of task t
RowsOf(t) == {k \in NewRows : store[k].filepath = PathString[tree[t]]}

InFlight == {t \in Tasks : pc[t] \in {"spawned", "execute"}}
Executing == {t \in Tasks : pc[t] = "execute"}
Spawned == {handles[k] : k \in 1..Len(handles)}

HasDenylistedSubstring(p) ==
    \/ contains(p, <<".", "g", "i", "t">>)
    \/ contains(p, <<"/", "t", "a", "r", "g", "e", "t", "/">>)
    \/ contains(p, <<".", "i", "d", "e", "a", "/">>)

\* the entries whose path contains one of the three substrings
DenylistedEntries ==
    {e \in 1..NumFs : HasDenylistedSubstring(FsEntries[e].path)}

\* a regular file the walker yields that passes the path filter
EligibleFile(t) ==
    /\ Entry(t).result = "ok"
    /\ Entry(t).ftype = "file"
    /\ tree[t] \notin DenylistedEntries

ScanOver == mainPc \in {"count", "exit"} /\ command = "walk" /\ pathArg

(***************************************************************************)
(* C1: at most one task is executing an insert against the store at any    *)
(* time: no two tasks are inside conn.execute together.                    *)
(* The code has no lock: each call opens a connection of its own and the   *)
(* tasks run on separate worker threads.                                   *)
(***************************************************************************)
C1_WriteSerialization == Cardinality(Executing) <= 1

(***************************************************************************)
(* C2: the work units spawned and not yet finished never exceed a fixed    *)
(* pool size, here the number of worker threads, whatever the size of the  *)
(* tree.  The code spawns a task per entry before any has finished.        *)
(***************************************************************************)
C2_BoundedFanOut == Cardinality(InFlight) <= WorkerThreads

(***************************************************************************)
(* C3: no partial digest is persisted: a file one of whose reads failed    *)
(* has no row, and the hash of every row this run inserted is the digest   *)
(* of the complete content of its file.                                    *)
(***************************************************************************)
C3_NoPartialDigest ==
    \A t \in Tasks :
        /\ io[t] = "read_failed" => RowsOf(t) = {}
        /\ \A k \in RowsOf(t) : store[k].hash = FullDigest(Entry(t).content)

(***************************************************************************)
(* C4: a file that cannot be opened is skipped and nothing else: its task  *)
(* ends without a FileRecord and without a row, the join of the handles    *)
(* is not held up by it, every other eligible file that was opened and     *)
(* whose insert was not given up has its row once the scan is over, and    *)
(* the count reported leaves the unopened file out.                        *)
(***************************************************************************)
C4_OpenFailureIsSkip ==
    /\ \A t \in Tasks : io[t] = "open_failed" =>
          /\ pc[t] = "panic_unwrap"
          /\ attempts[t] = <<>>
          /\ RowsOf(t) = {}
    /\ (mainPc = "walk" /\ idx = Len(tree) /\ InFlight = {}) => ENABLED JoinAll
    /\ ScanOver =>
          \A u \in Tasks :
              (EligibleFile(u) /\ io[u] # "open_failed"
                  /\ pc[u] # "panic_insert") => Cardinality(RowsOf(u)) = 1
    /\ (mainPc = "exit" /\ report # None /\ ~report[1].usize_max) =>
          report[1].count =
              prior + Cardinality({u \in Tasks : pc[u] = "returned"
                                                 /\ io[u] # "none"})

\* a scan that reported its count with one file unopened and another inserted
C4_Witness ==
    /\ mainPc = "exit"
    /\ report # None
    /\ ~report[1].usize_max
    /\ \E t, u \in Tasks :
          /\ EligibleFile(t) /\ io[t] = "open_failed"
          /\ EligibleFile(u) /\ RowsOf(u) # {}

(***************************************************************************)
(* C5: when every insert attempt of a record has failed, the call ends in  *)
(* a failure value handed back to its caller: the work unit does not       *)
(* panic.  The code panics at line 99 and drops join_all's results.        *)
(***************************************************************************)
C5_ExhaustionSurfaced == \A t \in Tasks : pc[t] # "panic_insert"

(***************************************************************************)
(* C6: a record gets at most RetryBudget + 1 insert attempts, all with the *)
(* payload of the first, none after the first success; and the call ends:  *)
(* while it runs, attempts made plus retries left is constant, so every    *)
(* failure uses a retry up.                                                *)
(***************************************************************************)
C6_BoundedRetry ==
    \A t \in Tasks :
        /\ Len(attempts[t]) <= RetryBudget + 1
        /\ \A k \in 1..Len(attempts[t]) :
              /\ attempts[t][k] = attempts[t][1]
              /\ attempts[t][k].filepath = PathString[tree[t]]
        /\ pc[t] = "execute" =>
              /\ Len(attempts[t]) + remaining[t] = RetryBudget + 1
              /\ remaining[t] >= 0
              /\ RowsOf(t) = {}
        /\ Cardinality(RowsOf(t)) <= 1

\* an insert that succeeded at the last attempt the budget allows
C6_Witness ==
    \E t \in Tasks :
        /\ Len(attempts[t]) = RetryBudget + 1
        /\ pc[t] = "returned"
        /\ RowsOf(t) # {}

(***************************************************************************)
(* C7 as stated: once the scan is over every eligible regular file has     *)
(* had an insert attempt and, unless its retries ran out, has exactly one  *)
(* new row.  A file that could not be opened has neither.                  *)
(***************************************************************************)
C7_Original ==
    ScanOver =>
        \A t \in Tasks : EligibleFile(t) =>
            /\ Len(attempts[t]) >= 1
            /\ pc[t] # "panic_insert" => Cardinality(RowsOf(t)) = 1

(***************************************************************************)
(* C7 amended: every entry is handed to a task at most once and has at     *)
(* most one new row at any time; once the scan is over every eligible      *)
(* regular file that was opened has had an insert attempt and, unless its  *)
(* retries ran out, has exactly one new row.                               *)
(***************************************************************************)
C7_ExactlyOnce ==
    /\ \A j, k \in 1..Len(handles) : handles[j] = handles[k] => j = k
    /\ \A t \in Tasks : Cardinality(RowsOf(t)) <= 1
    /\ ScanOver =>
          \A t \in Tasks : (EligibleFile(t) /\ io[t] # "open_failed") =>
              /\ Len(attempts[t]) >= 1
              /\ pc[t] # "panic_insert" => Cardinality(RowsOf(t)) = 1

\* a finished scan with two files inserted, one of them after a retry
C7_Witness ==
    /\ ScanOver
    /\ Cardinality({t \in Tasks : EligibleFile(t) /\ RowsOf(t) # {}}) >= 2
    /\ \E t \in Tasks : EligibleFile(t) /\ Len(attempts[t]) > 1
                        /\ RowsOf(t) # {}

(***************************************************************************)
(* C8: every row this run inserted is the row of an entry that is a        *)
(* regular file.  The task only tests is_dir(), so a symbolic link to a    *)
(* file is opened, digested and inserted.                                  *)
(***************************************************************************)
C8_OnlyRegularFiles ==
    \A k \in NewRows :
        \E t \in Tasks :
            /\ store[k].filepath = PathString[tree[t]]
            /\ Entry(t).ftype = "file"

(***************************************************************************)
(* C9: of the entries the loop has taken, one whose path contains .git,    *)
(* /target/ or .idea/ has no task and no new row, and a regular file       *)
(* whose path contains none of them has been handed to a task.             *)
(***************************************************************************)
C9_PathFilter ==
    \A t \in Tasks : (t <= idx /\ Entry(t).result = "ok") =>
        /\ tree[t] \in DenylistedEntries =>
              /\ t \notin Spawned
              /\ pc[t] = "unspawned"
              /\ RowsOf(t) = {}
        /\ (tree[t] \notin DenylistedEntries /\ Entry(t).ftype = "file")
              => (t \in Spawned /\ pc[t] # "unspawned")

\* a finished scan that skipped a denylisted file and inserted another file
C9_Witness ==
    /\ ScanOver
    /\ \E t, u \in Tasks :
          /\ tree[t] \in DenylistedEntries
          /\ Entry(t).ftype = "file"
          /\ pc[t] = "unspawned"
          /\ EligibleFile(u) /\ RowsOf(u) # {}

(***************************************************************************)
(* C10: the count query runs only when every task the scan spawned has     *)
(* returned or panicked: none is waiting for a worker or inside an insert. *)
(***************************************************************************)
C10_SettleBeforeRead ==
    (mainPc = "count" \/ report # None) =>
        /\ idx = Len(tree)
        /\ \A t \in Spawned : pc[t] \notin {"spawned", "execute"}
        /\ InFlight = {}

\* the query is about to run after one task inserted and another panicked
C10_Witness ==
    /\ mainPc = "count"
    /\ \E t \in Tasks : RowsOf(t) # {}
    /\ \E t \in Tasks : pc[t] = "panic_insert"

\* the root given to walk cannot be walked: it is missing or no directory
RootUnwalkable ==
    /\ tree # <<>>
    /\ \/ Entry(1).result = "err"
       \/ Entry(1).ftype # "dir"

(***************************************************************************)
(* C11: when the root cannot be walked the scan ends in a scan-level       *)
(* failure: nothing is inserted and no count is reported as for a scan     *)
(* that completed.  The code skips the root's Err like any entry's and     *)
(* reports the count; a root that is a file is digested and inserted.      *)
(***************************************************************************)
C11_ScanFailure ==
    (command = "walk" /\ pathArg /\ RootUnwalkable) =>
        /\ NewRows = {}
        /\ report = None

(***************************************************************************)
(* C12: an entry for which the walker yields an error gets no task and no  *)
(* row and does not end the loop: every eligible file the loop has passed, *)
(* before or after the error, was handed to a task, and the scan is over   *)
(* only when the loop has taken every entry.                               *)
(***************************************************************************)
C12_EntryErrorSkipped ==
    /\ \A t \in Tasks : (t <= idx /\ Entry(t).result = "err") =>
          /\ t \notin Spawned
          /\ pc[t] = "unspawned"
          /\ RowsOf(t) = {}
    /\ \A u \in Tasks : (u <= idx /\ EligibleFile(u)) => u \in Spawned
    /\ ScanOver =>
          /\ idx = Len(tree)
          /\ \A u \in Tasks : EligibleFile(u) => u \in Spawned

\* a finished scan that inserted a file the walker yielded after an error
C12_Witness ==
    /\ ScanOver
    /\ \E t, u \in Tasks :
          /\ t < u
          /\ Entry(t).result = "err"
          /\ EligibleFile(u) /\ RowsOf(u) # {}

(***************************************************************************)
(* C13: the number the walk reports as inserted is the number of rows      *)
(* this scan inserted, also when the store held rows before the scan.      *)
(* The code reports the count of the whole table and nothing else: no     *)
(* number of files discovered, no number of records failed.                *)
(***************************************************************************)
C13_NoSilentUndercount ==
    (report # None /\ ~report[1].usize_max) =>
        report[1].count = Cardinality(NewRows)

(***************************************************************************)
(* C14: with no read error, whatever the content and the chunk size, the   *)
(* bytes fed to the accumulator are at every moment the bytes of the file  *)
(* up to the read position, and at the end all of the file, so that the    *)
(* fingerprint is the one-shot digest of the content; every read before    *)
(* the last filled the chunk and the last one, at which the loop stops,    *)
(* returned 0 bytes or fewer than the chunk size.  At the chunk size of    *)
(* the scan the result is the one calculate_digest gives.                  *)
(***************************************************************************)
C14_ChunkIndependence ==
    dg.on =>
        /\ dg.md5 = SubSeq(dg.content, 1, dg.pos)
        /\ \A k \in 1..Len(dg.reads) :
              k < Len(dg.reads) => dg.reads[k] = dg.chunk_size
        /\ dg.result = None =>
              \A k \in 1..Len(dg.reads) : dg.reads[k] = dg.chunk_size
        /\ dg.result # None =>
              /\ dg.md5 = dg.content
              /\ dg.result[1] = FullDigest(dg.content)
              /\ dg.reads[Len(dg.reads)] < dg.chunk_size
              /\ dg.chunk_size = ChunkSize =>
                    dg.result = calculate_digest(dg.content, TRUE, 0)

\* a content of two full chunks, digested: the loop ended on a read of 0
C14_Witness ==
    /\ dg.on
    /\ dg.result # None
    /\ Len(dg.content) = 2 * dg.chunk_size
    /\ dg.chunk_size > 1
    /\ dg.reads = <<dg.chunk_size, dg.chunk_size, 0>>

\* the rows of the whole table, old and new, that hold the path of task t
AllRowsOf(t) == {k \in 1..Len(store) : store[k].filepath = PathString[tree[t]]}

\* the store held, at start, what an earlier faultless scan of this tree left
AfterEarlierScan == tables /\ SubSeq(store, 1, prior) = EarlierScan(tree)

(***************************************************************************)
(* C15 as stated, its second part: when a walk has finished on a tree an   *)
(* earlier walk had scanned, every eligible file has exactly two rows,     *)
(* with the same path and the same hash.                                   *)
(***************************************************************************)
C15_Original ==
    (ScanOver /\ AfterEarlierScan) =>
        \A t \in Tasks : EligibleFile(t) =>
            /\ Cardinality(AllRowsOf(t)) = 2
            /\ \A j, k \in AllRowsOf(t) : store[j].hash = store[k].hash

(***************************************************************************)
(* C15: the store is append-only. No step of any command deletes or        *)
(* changes a row that is in the table: every step leaves the rows it found *)
(* in place, in order, and at most adds rows after them, and the table,    *)
(* once there, stays. When a walk has finished on a tree an earlier walk   *)
(* had recorded in full, an eligible file the second walk opened and       *)
(* inserted has exactly two rows, one from each scan, with the same path,  *)
(* and with the same hash, the digest of the whole file, when the second   *)
(* walk read it without error; a file the second walk could not open or    *)
(* whose inserts ran out of retries keeps the one row of the first walk.   *)
(***************************************************************************)
C15_AppendOnly ==
    /\ [][/\ Len(store') >= Len(store)
          /\ SubSeq(store', 1, Len(store)) = store
          /\ tables => tables']_vars
    /\ []((ScanOver /\ AfterEarlierScan) =>
            \A t \in Tasks : EligibleFile(t) =>
                IF pc[t] = "returned"
                THEN /\ Cardinality(AllRowsOf(t)) = 2
                     /\ Cardinality(RowsOf(t)) = 1
                     /\ io[t] = "read_ok" =>
                          \A k \in AllRowsOf(t) :
                             store[k] =
                                FileRecord(Entry(t).path,
                                           Some(FullDigest(Entry(t).content)))
                ELSE /\ pc[t] \in {"panic_unwrap", "panic_insert"}
                     /\ Cardinality(AllRowsOf(t)) = 1
                     /\ RowsOf(t) = {})

C15_Witness ==
    /\ ScanOver
    /\ mainPc = "exit"
    /\ AfterEarlierScan
    /\ prior = 2
    /\ Len(store) = 3
    /\ \E t, u \in Tasks :
          /\ EligibleFile(t) /\ pc[t] = "returned" /\ io[t] = "read_ok"
          /\ Cardinality(AllRowsOf(t)) = 2
          /\ EligibleFile(u) /\ io[u] = "open_failed"
          /\ Cardinality(AllRowsOf(u)) = 1

(***************************************************************************)
(* C16: creating the schema is idempotent. The step in which walk or setup *)
(* creates the table never fails and leaves the table present and every    *)
(* row that was in it unchanged; on a store that already has the table it  *)
(* changes nothing of the store.                                           *)
(***************************************************************************)
C16_CreateIdempotent ==
    [][(mainPc = "start" /\ command \in {"walk", "setup"}) =>
          /\ mainPc' # "panic_create"
          /\ tables'
          /\ store' = store
          /\ tables => UNCHANGED <<tables, store>>]_vars

C16_Witness ==
    /\ command = "setup"
    /\ mainPc = "exit"
    /\ tables
    /\ prior > 0
    /\ Len(store) = prior

(***************************************************************************)
(* C17: what each command touches. setup only creates the table: it adds,  *)
(* changes and removes no row, walks nothing, spawns nothing and reports   *)
(* nothing. A command that is neither walk nor setup changes nothing at    *)
(* all of the store and does none of those things either. walk creates the *)
(* table before it takes the first entry, and reports only after the last  *)
(* entry was taken, as its last step.                                      *)
(***************************************************************************)
C17_CommandFrame ==
    /\ [][command = "setup" =>
            /\ tables'
            /\ UNCHANGED <<store, idx, handles, report, taskVars>>]_vars
    /\ [][command \notin {"walk", "setup"} =>
            UNCHANGED <<tables, store, idx, handles, report, taskVars>>]_vars
    /\ [](command = "walk" =>
            /\ (mainPc \in {"walk", "count"} \/ idx > 0 \/ handles # <<>>
                  \/ NewRows # {}) => tables
            /\ report # None => (mainPc = "exit" /\ idx = Len(tree)))

C17_Witness ==
    /\ command = "setup"
    /\ mainPc = "exit"
    /\ tree # <<>>
    /\ prior = 0
    /\ tables
    /\ idx = 0
    /\ store = <<>>

\* the rows of the table that hold hash h
HashGroup(h) == {k \in 1..Len(store) : store[k].hash = h}

\* the groups of at least two rows with the same hash
DuplicateGroups ==
    {HashGroup(store[k].hash) : k \in {j \in 1..Len(store) :
                                          Cardinality(HashGroup(store[j].hash)) >= 2}}

(***************************************************************************)
(* C18: when a command has run, the duplicate sets returned are exactly    *)
(* the groups of at least two rows with the same hash, each set holding    *)
(* every row of its hash and each group returned once, in order of         *)
(* descending size. (The order among sets of one size, by ascending hash,  *)
(* is left out: the digests are kept as the bytes hashed.)                 *)
(* The program has no step that groups the rows: it returns no set.        *)
(***************************************************************************)
C18_DuplicateResolution ==
    mainPc = "exit" =>
        /\ {DuplicateSets[i] : i \in 1..Len(DuplicateSets)} = DuplicateGroups
        /\ Len(DuplicateSets) = Cardinality(DuplicateGroups)
        /\ \A i, j \in 1..Len(DuplicateSets) :
              i < j => Cardinality(DuplicateSets[i]) >= Cardinality(DuplicateSets[j])

(***************************************************************************)
(* C19: under fair scheduling of the main future and of the spawned tasks  *)
(* every walk given a path reaches its count report, whatever the tree and *)
(* whatever each file's outcome (digest and insert, open failure, read     *)
(* failure, failed inserts that are retried, retries exhausted). The      *)
(* report follows the join of the handles, so the scan never stays in      *)
(* walk_filesystem_hashing waiting for a task that failed or panicked.     *)
(***************************************************************************)
C19_ScanCompletion ==
    (command = "walk" /\ pathArg) ~> (report # None /\ mainPc = "exit")

C19_Witness ==
    /\ command = "walk"
    /\ mainPc = "exit"
    /\ report # None
    /\ \E t, u \in Tasks :
          /\ pc[t] = "panic_insert"
          /\ pc[u] = "panic_unwrap"

=============================================================================
